---- MODULE Spec2Model ----
(***************************************************************************)
(* Bunsekikun: morpheme grouping (groupTokens), the word-lookup panel      *)
(* (WordInfo), the dictionary proxy route and the analyser page (App).     *)
(* Part-of-speech tags are romanised, the module being ASCII:              *)
(*   doushi = 動詞 (verb)            jodoushi = 助動詞 (auxiliary verb)    *)
(*   joshi = 助詞 (particle)         meishi = 名詞 (noun)                  *)
(*   setsuzokujoshi = 接続助詞       shuujoshi = 終助詞                    *)
(*   hijiritsu = 非自立              setsubi = 接尾                        *)
(***************************************************************************)
EXTENDS Integers, Sequences, FiniteSets, TLC

\* ------------------------------------------------------------------------
\* Bounds
\* ------------------------------------------------------------------------
\* longest token stream over the full token alphabet handed to groupTokens
MaxTokens == 2
\* longest token stream over the tag kinds (TagKinds) handed to groupTokens
MaxLong == 4
\* dictionary lookups issued in one behaviour
MaxLookups == 2
\* clicks on a word in one behaviour
MaxSelects == 2
\* runs of the tagger in one behaviour
MaxAnalyses == 2
\* entries the dictionary service returns for one keyword, at most
MaxEntries == 2
\* clicks on the theme button in one document
MaxToggles == 4
\* reloads of the document in one behaviour
MaxReloads == 2

\* ------------------------------------------------------------------------
\* Tokens (KuromojiToken, the fields groupTokens reads)
\* ------------------------------------------------------------------------
Doushi == "doushi"
Jodoushi == "jodoushi"
Joshi == "joshi"
Meishi == "meishi"
Keiyoushi == "keiyoushi"
SetsuzokuJoshi == "setsuzokujoshi"
ShuuJoshi == "shuujoshi"
Hijiritsu == "hijiritsu"
Setsubi == "setsubi"
Ippan == "ippan"

PosTags == {Doushi, Jodoushi, Joshi, Meishi, Keiyoushi}
PosDetails == {SetsuzokuJoshi, ShuuJoshi, Hijiritsu, Setsubi, Ippan}
Surfaces == {"ne", "ko"}
\* "" stands for a reading the tagger left out (undefined or empty: both falsy)
Readings == {"", "YOMI"}

KuromojiToken ==
    [surface_form : Surfaces, reading : Readings, pos : PosTags, pos_detail_1 : PosDetails]

Tok(s, r, p, d) == [surface_form |-> s, reading |-> r, pos |-> p, pos_detail_1 |-> d]

\* the value of a tokens argument that is null / undefined
Absent == << Tok("", "", "undefined", "undefined") >>

\* ------------------------------------------------------------------------
\* groupTokens
\* ------------------------------------------------------------------------
\* newToken without the fallback of the reading to the surface form
newTokenRawReading(token) == << token.surface_form, token.reading, token.pos >>

\* const newToken: AnalyzedToken = [surface_form, reading || surface_form, pos]
newToken(token) ==
    << token.surface_form,
       IF token.reading # "" THEN token.reading ELSE token.surface_form,
       token.pos >>

\* continues without its last clause (noun with sub-tag suffix)
continuesNoSuffix(token, prevPos) ==
    \/ (token.pos = Jodoushi /\ prevPos = Doushi)
    \/ (token.pos = Joshi /\ (token.pos_detail_1 = SetsuzokuJoshi \/ token.pos_detail_1 = ShuuJoshi))
    \/ (token.pos = Doushi /\ prevPos = Doushi /\ token.pos_detail_1 = Hijiritsu)

\* continues with its first clause not looking at prevPos
continuesAuxAfterAny(token, prevPos) ==
    \/ token.pos = Jodoushi
    \/ (token.pos = Joshi /\ (token.pos_detail_1 = SetsuzokuJoshi \/ token.pos_detail_1 = ShuuJoshi))
    \/ (token.pos = Doushi /\ prevPos = Doushi /\ token.pos_detail_1 = Hijiritsu)
    \/ (token.pos = Meishi /\ token.pos_detail_1 = Setsubi)

\* the four operands of || in the inner if, in the order of the source
auxAfterVerb(token, prevPos) == token.pos = Jodoushi /\ prevPos = Doushi

linkingParticle(token, prevPos) ==
    token.pos = Joshi /\ (token.pos_detail_1 = SetsuzokuJoshi \/ token.pos_detail_1 = ShuuJoshi)

\* the third operand without its test of the token's own part of speech
dependentAfterVerb(token, prevPos) == prevPos = Doushi /\ token.pos_detail_1 = Hijiritsu

dependentVerbAfterVerb(token, prevPos) ==
    token.pos = Doushi /\ prevPos = Doushi /\ token.pos_detail_1 = Hijiritsu

suffixNoun(token, prevPos) == token.pos = Meishi /\ token.pos_detail_1 = Setsubi

\* the condition of the inner if: the token continues the open word
continues(token, prevPos) ==
    \/ auxAfterVerb(token, prevPos)
    \/ linkingParticle(token, prevPos)
    \/ dependentVerbAfterVerb(token, prevPos)
    \/ suffixNoun(token, prevPos)

\* forEachBody putting a continuing token at the front of the open word
\* (unshift for push)
forEachBodyUnshift(acc, token) ==
    IF Len(acc.currentWord) = 0
    THEN [acc EXCEPT !.currentWord = Append(acc.currentWord, newToken(token))]
    ELSE LET prevPos == acc.currentWord[Len(acc.currentWord)][3] IN
         IF continues(token, prevPos)
         THEN [acc EXCEPT !.currentWord = << newToken(token) >> \o acc.currentWord]
         ELSE [wordList |-> Append(acc.wordList, acc.currentWord),
               currentWord |-> << newToken(token) >>]

\* forEachBody opening the new word empty (currentWord = [] for [newToken])
forEachBodyDrop(acc, token) ==
    IF Len(acc.currentWord) = 0
    THEN [acc EXCEPT !.currentWord = Append(acc.currentWord, newToken(token))]
    ELSE LET prevPos == acc.currentWord[Len(acc.currentWord)][3] IN
         IF continues(token, prevPos)
         THEN [acc EXCEPT !.currentWord = Append(acc.currentWord, newToken(token))]
         ELSE [wordList |-> Append(acc.wordList, acc.currentWord),
               currentWord |-> << >>]

\* forEachBody joining at most two tokens: a word of two is closed whatever
\* comes next
forEachBodyPairs(acc, token) ==
    IF Len(acc.currentWord) = 0
    THEN [acc EXCEPT !.currentWord = Append(acc.currentWord, newToken(token))]
    ELSE LET prevPos == acc.currentWord[Len(acc.currentWord)][3] IN
         IF Len(acc.currentWord) < 2 /\ continues(token, prevPos)
         THEN [acc EXCEPT !.currentWord = Append(acc.currentWord, newToken(token))]
         ELSE [wordList |-> Append(acc.wordList, acc.currentWord),
               currentWord |-> << newToken(token) >>]

\* forEachBody taking prevPos from the first token of the open word
forEachBodyFirstPos(acc, token) ==
    IF Len(acc.currentWord) = 0
    THEN [acc EXCEPT !.currentWord = Append(acc.currentWord, newToken(token))]
    ELSE LET prevPos == acc.currentWord[1][3] IN
         IF continues(token, prevPos)
         THEN [acc EXCEPT !.currentWord = Append(acc.currentWord, newToken(token))]
         ELSE [wordList |-> Append(acc.wordList, acc.currentWord),
               currentWord |-> << newToken(token) >>]

\* the body of tokens.forEach: acc is [wordList, currentWord]
forEachBody(acc, token) ==
    IF Len(acc.currentWord) = 0
    THEN [acc EXCEPT !.currentWord = Append(acc.currentWord, newToken(token))]
    ELSE LET prevPos == acc.currentWord[Len(acc.currentWord)][3] IN
         IF continues(token, prevPos)
         THEN [acc EXCEPT !.currentWord = Append(acc.currentWord, newToken(token))]
         ELSE [wordList |-> Append(acc.wordList, acc.currentWord),
               currentWord |-> << newToken(token) >>]

RECURSIVE forEach(_, _, _)
forEach(tokens, i, acc) ==
    IF i > Len(tokens) THEN acc
    ELSE forEach(tokens, i + 1, forEachBody(acc, tokens[i]))

\* pushLast without the push of the open word
pushLastNever(acc) == acc.wordList

\* if (currentWord.length > 0) wordList.push(currentWord); return wordList
pushLast(acc) ==
    IF Len(acc.currentWord) > 0 THEN Append(acc.wordList, acc.currentWord) ELSE acc.wordList

groupTokens(tokens) ==
    IF tokens = Absent \/ Len(tokens) = 0 THEN << >>
    ELSE pushLast(forEach(tokens, 1, [wordList |-> << >>, currentWord |-> << >>]))


\* ------------------------------------------------------------------------
\* Dictionary: the upstream service, the proxy route, the client lookup
\* ------------------------------------------------------------------------
\* JishoData | null; a JishoData is identified by the keyword it answers and
\* its place in the upstream list
NullEntry == [slug |-> "", place |-> 0]
Entry(keyword, i) == [slug |-> keyword, place |-> i]

\* what the call to jisho.org does: it throws, answers not-OK, or answers OK
\* with a list of n entries
UpstreamOutcomes ==
    { [kind |-> "throw", n |-> 0], [kind |-> "notok", n |-> 0] }
        \cup { [kind |-> "ok", n |-> k] : k \in 0..MaxEntries }

UpstreamData(keyword, n) == [i \in 1..n |-> Entry(keyword, i)]

\* the route handler without its test of the keyword
GETAnyKeyword(keyword, up) ==
    IF up.kind = "ok"
    THEN [status |-> 200, ok |-> TRUE, data |-> UpstreamData(keyword, up.n),
          upstreamCalls |-> 1]
    ELSE [status |-> 500, ok |-> FALSE, data |-> << >>, upstreamCalls |-> 1]

\* the route handler: the response it sends and the upstream calls it made
GET(keyword, up) ==
    IF keyword = ""
    THEN [status |-> 400, ok |-> FALSE, data |-> << >>, upstreamCalls |-> 0]
    ELSE IF up.kind = "ok"
         THEN [status |-> 200, ok |-> TRUE, data |-> UpstreamData(keyword, up.n),
               upstreamCalls |-> 1]
         ELSE [status |-> 500, ok |-> FALSE, data |-> << >>, upstreamCalls |-> 1]

\* the client lookup once its fetch has settled: fetchThrew when the fetch of
\* the route rejected, else response is what the route sent
getWordMeaningWithJisho(fetchThrew, response) ==
    IF fetchThrew \/ ~response.ok
    THEN [threw |-> TRUE, value |-> NullEntry]
    ELSE IF Len(response.data) > 0
         THEN [threw |-> FALSE, value |-> response.data[1]]
         ELSE [threw |-> FALSE, value |-> NullEntry]

\* no request to the route is being followed
NoCall ==
    [keyword |-> "", up |-> [kind |-> "throw", n |-> 0], fetchThrew |-> FALSE,
     stage |-> "none",
     response |-> [status |-> 0, ok |-> FALSE, data |-> << >>, upstreamCalls |-> 0],
     result |-> [threw |-> FALSE, value |-> NullEntry]]

\* the values of ?keyword= ; "" stands for a keyword that is empty or missing
\* (searchParams.get gives "" or null: both falsy)
Keywords == {"", "ne", "ko", "tabe", "neko"}

\* ------------------------------------------------------------------------
\* The page: texts, the tagger, messages
\* ------------------------------------------------------------------------
\* a text is a sequence of characters; " " is white space
TextEmpty == << >>
TextBlank == << " " >>
TextA == << "A" >>
TextB == << " ", "B" >>
Texts == {TextEmpty, TextBlank, TextA, TextB}

RECURSIVE trimStart(_)
trimStart(s) == IF Len(s) > 0 /\ Head(s) = " " THEN trimStart(Tail(s)) ELSE s

RECURSIVE trimEnd(_)
trimEnd(s) ==
    IF Len(s) > 0 /\ s[Len(s)] = " " THEN trimEnd(SubSeq(s, 1, Len(s) - 1)) ELSE s

\* a trim that leaves white space where it is
trimNothing(s) == s

\* String.prototype.trim
trim(s) == trimEnd(trimStart(s))

\* [(食べ, 動詞), (た, 助動詞), (の, 助詞/接続助詞), (猫, 名詞), (たち, 名詞/接尾)]
ScenarioTokens ==
    << Tok("tabe", "TABE", Doushi, "jiritsu"),
       Tok("ta", "TA", Jodoushi, "*"),
       Tok("no", "NO", Joshi, SetsuzokuJoshi),
       Tok("neko", "NEKO", Meishi, Ippan),
       Tok("tachi", "TACHI", Meishi, Setsubi) >>

\* 猫 が 猫: two different words with the same surface
TwinTokens ==
    << Tok("neko", "NEKO", Meishi, Ippan),
       Tok("ga", "GA", Joshi, "kakujoshi"),
       Tok("neko", "NEKO", Meishi, Ippan) >>

\* kuromojiTokenizer.tokenize: the tagger is outside the repository; it is a
\* function of the text
tokenize(text) == IF trim(text) = TextA THEN ScenarioTokens ELSE TwinTokens

ErrNull == "null"
ErrInput == "Please enter some text to analyze."
ErrNotReady == "Tokenizer is not ready yet. Please wait."
ErrAnalyse == "Failed to analyze text."
ErrNoKuromoji == "Kuromoji script loaded but window.kuromoji is undefined."
ErrBuild == "Failed to build Kuromoji tokenizer."
ErrScript == "Failed to load Kuromoji script from CDN."
ErrTimeout == "Kuromoji script load timed out. Please check your connection or try again later."
ErrLookup == "Failed to fetch definition from Jisho.org."

\* AnalysisResult | null; aid tells the word objects of one analysis from
\* those of another
NoAnalysis == [present |-> FALSE, aid |-> 0, word_list |-> << >>]
\* AnalyzedWord | null: a reference to a word object of an analysis
NoWord == [aid |-> 0, idx |-> 0, word |-> << >>]

\* ------------------------------------------------------------------------
\* State
\* ------------------------------------------------------------------------
VARIABLES
    \* App
    inputText, analysis, selectedWord, isLoading, tokenizerLoading, error,
    analyses,           \* calls of kuromojiTokenizer.tokenize so far (names the word objects)
    \* module level
    kuromojiTokenizer,  \* TRUE when a tokenizer is installed, FALSE when null
    \* loadKuromoji
    script,             \* "pending" | "loaded" | "failed"
    timer,              \* "armed" | "cleared" | "fired"
    build,              \* "none" | "pending" | "done"
    deadline,           \* "ahead" | "passed": the 10 seconds since loadKuromoji was called
    \* WordInfo
    jishoData, wiIsLoading, wiError,
    pending,            \* lookups whose promise has not settled
    issued,             \* lookups started so far; a lookup's id is its number
    \* history
    dataBy,             \* id of the lookup whose completion wrote jishoData, 0 after a reset
    errorBy,            \* id of the lookup whose completion wrote wiError, 0 after a reset
    outcome,            \* outcome[id]: what lookup id settled to, "pending" before
    lastDone,           \* id of the lookup that settled last, 0 when none has
    selects,            \* calls of handleWordSelect so far
    cleared,            \* ids of the pending lookups that were in flight at a handleCloseInfo
    \* groupTokens called on its own
    gTokens,            \* the argument of a groupTokens call
    gCalled,            \* whether the call has returned
    gWords,             \* the value it returned
    \* one request to /api/jisho followed from the route to the client lookup
    routeCall,          \* [keyword, up, fetchThrew, stage, response, result]
    \* ThemeProvider, localStorage and the class list of the document element
    themeProvider       \* [theme, queue, effects, stored, darkClass, storedAtMount,
                        \*  toggles, before, reloads]

appVars == << inputText, analysis, selectedWord, isLoading, tokenizerLoading, error,
              analyses, kuromojiTokenizer >>
loaderVars == << script, timer, build, deadline >>
wordInfoVars == << jishoData, wiIsLoading, wiError, pending, issued, dataBy, errorBy,
                  outcome, lastDone >>
groupVars == << gTokens, gCalled, gWords, routeCall >>
themeVars == << themeProvider >>
vars == << appVars, loaderVars, wordInfoVars, selects, cleared, groupVars, themeVars >>

\* ------------------------------------------------------------------------
\* ThemeProvider: the theme state, its two effects and the toggle button
\* ------------------------------------------------------------------------
Themes == { "light", "dark" }

\* localStorage.getItem("theme"): "" stands for null, no item stored
StoredThemes == { "" } \cup Themes

\* ThemeProvider rendered for the first time in a new document:
\* useState('light'), no class on the document element, both effects to run;
\* storedAtMount, toggles and before are history: what the storage held at
\* this mount, the clicks since, and the themes shown at the last two clicks
ThemeProviderMount(stored, reloads) ==
    [theme |-> "light", queue |-> << >>, effects |-> "mount",
     stored |-> stored, darkClass |-> FALSE,
     storedAtMount |-> stored, toggles |-> 0, before |-> << >>, reloads |-> reloads]

\* setTheme(value): the update is queued for the next render
setTheme(tp, value) == [tp EXCEPT !.queue = Append(@, value)]

\* the render that takes the queued updates; the effect on [theme] is due
\* when the theme it sees differs from the one of the render before
render(tp) ==
    LET next == IF tp.queue = << >> THEN tp.theme ELSE tp.queue[Len(tp.queue)] IN
    [tp EXCEPT !.theme = next, !.queue = << >>,
               !.effects = IF next # tp.theme THEN "theme" ELSE "none"]

\* the effect on []: the stored theme, when there is one, becomes the theme
storedThemeEffect(tp) ==
    LET storedTheme == tp.stored IN
    IF storedTheme # "" THEN setTheme(tp, storedTheme) ELSE tp

\* the effect on [theme] without localStorage.setItem
themeEffectNoSetItem(tp) ==
    IF tp.theme = "dark"
    THEN [tp EXCEPT !.darkClass = TRUE]
    ELSE [tp EXCEPT !.darkClass = FALSE]

\* the effect on [theme]: the class of the document element, then the item
themeEffect(tp) ==
    [ (IF tp.theme = "dark"
       THEN [tp EXCEPT !.darkClass = TRUE]
       ELSE [tp EXCEPT !.darkClass = FALSE])
      EXCEPT !.stored = tp.theme ]

\* the button's onClick
onClick(tp) == setTheme(tp, IF tp.theme = "dark" THEN "light" ELSE "dark")

\* App's useState initial values, then App.useEffect -> loadKuromoji up to
\* appendChild, and WordInfo's effect for selectedWord = null
InitPage ==
    /\ inputText = TextA
    /\ analysis = NoAnalysis
    /\ selectedWord = NoWord
    /\ isLoading = FALSE
    /\ tokenizerLoading = TRUE
    /\ error = ErrNull
    /\ analyses = 0
    /\ kuromojiTokenizer = FALSE
    /\ script = "pending"
    /\ timer = "armed"
    /\ build = "none"
    /\ deadline = "ahead"
    /\ jishoData = NullEntry
    /\ wiIsLoading = FALSE
    /\ wiError = ""
    /\ pending = {}
    /\ issued = 0
    /\ dataBy = 0
    /\ errorBy = 0
    /\ outcome = << >>
    /\ lastDone = 0
    /\ selects = 0
    /\ cleared = {}

Init ==
    /\ InitPage
    /\ gTokens = << >>
    /\ gCalled = FALSE
    /\ gWords = << >>
    /\ routeCall = NoCall
    /\ themeProvider = ThemeProviderMount("", 0)

\* ------------------------------------------------------------------------
\* loadKuromoji: the callbacks it registers
\* ------------------------------------------------------------------------
\* a clearTimeout that leaves the timeout armed
clearTimeoutNot(t) == t

clearTimeout(t) == IF t = "armed" THEN "cleared" ELSE t

\* script.onload; hasKuromoji: whether the script defined window.kuromoji
ScriptOnload(hasKuromoji) ==
    /\ script = "pending"
    /\ script' = "loaded"
    /\ timer' = clearTimeout(timer)
    /\ IF ~hasKuromoji
       THEN /\ tokenizerLoading' = FALSE
            /\ error' = ErrNoKuromoji
            /\ UNCHANGED build
       ELSE /\ build' = "pending"
            /\ UNCHANGED << tokenizerLoading, error >>
    /\ UNCHANGED << inputText, analysis, selectedWord, isLoading, analyses, kuromojiTokenizer >>
    /\ UNCHANGED << deadline, wordInfoVars, selects, cleared, groupVars, themeVars >>

\* script.onerror
ScriptOnerror ==
    /\ script = "pending"
    /\ script' = "failed"
    /\ timer' = clearTimeout(timer)
    /\ tokenizerLoading' = FALSE
    /\ error' = ErrScript
    /\ UNCHANGED << inputText, analysis, selectedWord, isLoading, analyses, kuromojiTokenizer >>
    /\ UNCHANGED << build, deadline, wordInfoVars, selects, cleared, groupVars, themeVars >>

\* the setTimeout callback
TimeoutFires ==
    /\ timer = "armed"
    /\ timer' = "fired"
    /\ deadline' = "passed"
    /\ tokenizerLoading' = FALSE
    /\ error' = ErrTimeout
    /\ UNCHANGED << inputText, analysis, selectedWord, isLoading, analyses, kuromojiTokenizer >>
    /\ UNCHANGED << script, build, wordInfoVars, selects, cleared, groupVars, themeVars >>

\* the 10 seconds pass with the timeout cleared: no callback runs
DeadlinePasses ==
    /\ deadline = "ahead"
    /\ timer # "armed"
    /\ deadline' = "passed"
    /\ UNCHANGED << script, timer, build, appVars, wordInfoVars, selects, cleared, groupVars, themeVars >>

\* the callback handed to builder(...).build
BuildCallback(err) ==
    /\ build = "pending"
    /\ build' = "done"
    /\ IF err
       THEN /\ tokenizerLoading' = FALSE
            /\ error' = ErrBuild
            /\ UNCHANGED kuromojiTokenizer
       ELSE /\ kuromojiTokenizer' = TRUE
            /\ tokenizerLoading' = FALSE
            /\ UNCHANGED error
    /\ UNCHANGED << inputText, analysis, selectedWord, isLoading, analyses >>
    /\ UNCHANGED << script, timer, deadline, wordInfoVars, selects, cleared, groupVars, themeVars >>

\* ------------------------------------------------------------------------
\* WordInfo
\* ------------------------------------------------------------------------
\* A handler, the render it causes and the effects of that render run to
\* completion before the event loop takes the next callback, so they are one
\* step; an async function is one step up to its await and one step from it
\* (the state updates after the await are batched into one render).
\* fetchMeaning keyed on the surface of the word's last token
fetchMeaningLastToken(sel) ==
    LET baseForm == sel.word[Len(sel.word)][1] IN
    /\ wiIsLoading' = TRUE
    /\ wiError' = ""
    /\ jishoData' = NullEntry
    /\ issued' = issued + 1
    /\ pending' = pending \cup { [id |-> issued + 1, keyword |-> baseForm] }
    /\ dataBy' = 0
    /\ errorBy' = 0
    /\ outcome' = Append(outcome, "pending")
    /\ UNCHANGED lastDone

\* fetchMeaning up to its await: the three resets, then the lookup is sent
fetchMeaning(sel) ==
    LET baseForm == sel.word[1][1] IN
    /\ wiIsLoading' = TRUE
    /\ wiError' = ""
    /\ jishoData' = NullEntry
    /\ issued' = issued + 1
    /\ pending' = pending \cup { [id |-> issued + 1, keyword |-> baseForm] }
    /\ dataBy' = 0
    /\ errorBy' = 0
    /\ outcome' = Append(outcome, "pending")
    /\ UNCHANGED lastDone

\* the effect without its reset of the entry when the selection is null
WordInfoEffectKeepsEntry(sel) ==
    IF sel = NoWord
    THEN UNCHANGED << jishoData, dataBy, wiIsLoading, wiError, pending, issued, errorBy,
                      outcome, lastDone >>
    ELSE fetchMeaning(sel)

\* the effect of WordInfo, run when selectedWord has changed to sel
WordInfoEffect(sel) ==
    IF sel = NoWord
    THEN /\ jishoData' = NullEntry
         /\ dataBy' = 0
         /\ UNCHANGED << wiIsLoading, wiError, pending, issued, errorBy, outcome, lastDone >>
    ELSE fetchMeaning(sel)

\* what a lookup settled to
Outcome(res) == IF res.threw THEN "error" ELSE IF res.value = NullEntry THEN "null" ELSE "entry"

\* fetchMeaning without its finally: isLoading is reset only when the lookup
\* returned
CompleteLookupNoFinally(p, up, fetchThrew) ==
    LET res == getWordMeaningWithJisho(fetchThrew, GET(p.keyword, up)) IN
    /\ p \in pending
    /\ pending' = pending \ {p}
    /\ IF res.threw
       THEN /\ wiError' = ErrLookup
            /\ errorBy' = p.id
            /\ UNCHANGED << jishoData, dataBy, wiIsLoading >>
       ELSE /\ jishoData' = res.value
            /\ dataBy' = p.id
            /\ wiIsLoading' = FALSE
            /\ UNCHANGED << wiError, errorBy >>
    /\ outcome' = [outcome EXCEPT ![p.id] = Outcome(res)]
    /\ lastDone' = p.id
    /\ cleared' = cleared \ {p.id}
    /\ UNCHANGED << issued, appVars, loaderVars, selects, groupVars, themeVars >>

\* fetchMeaning from its await on: the lookup p settles; up is what the
\* upstream service did, fetchThrew whether the fetch of the route rejected
CompleteLookup(p, up, fetchThrew) ==
    LET res == getWordMeaningWithJisho(fetchThrew, GET(p.keyword, up)) IN
    /\ p \in pending
    /\ pending' = pending \ {p}
    /\ IF res.threw
       THEN /\ wiError' = ErrLookup
            /\ errorBy' = p.id
            /\ UNCHANGED << jishoData, dataBy >>
       ELSE /\ jishoData' = res.value
            /\ dataBy' = p.id
            /\ UNCHANGED << wiError, errorBy >>
    /\ wiIsLoading' = FALSE
    /\ outcome' = [outcome EXCEPT ![p.id] = Outcome(res)]
    /\ lastDone' = p.id
    /\ cleared' = cleared \ {p.id}
    /\ UNCHANGED << issued, appVars, loaderVars, selects, groupVars, themeVars >>

\* ------------------------------------------------------------------------
\* App
\* ------------------------------------------------------------------------
\* the textarea's onChange and the example buttons
SetInputText(text) ==
    /\ text # inputText
    /\ inputText' = text
    /\ UNCHANGED << analysis, selectedWord, isLoading, tokenizerLoading, error, analyses,
                    kuromojiTokenizer >>
    /\ UNCHANGED << loaderVars, wordInfoVars, selects, cleared, groupVars, themeVars >>

\* the word object at place i of the displayed analysis
WordAt(i) == [aid |-> analysis.aid, idx |-> i, word |-> analysis.word_list[i]]

\* a click on the i-th word of AnalysisDisplay: handleWordSelect, then, when
\* the state changed, the render and WordInfo's effect
HandleWordSelect(i) ==
    /\ analysis.present
    /\ i \in 1..Len(analysis.word_list)
    /\ selects < MaxSelects
    /\ selects' = selects + 1
    /\ \/ /\ WordAt(i) # selectedWord
          /\ issued < MaxLookups
          /\ selectedWord' = WordAt(i)
          /\ WordInfoEffect(WordAt(i))
       \/ /\ WordAt(i) = selectedWord
          /\ UNCHANGED << selectedWord, wordInfoVars >>
    /\ UNCHANGED << inputText, analysis, isLoading, tokenizerLoading, error, analyses,
                    kuromojiTokenizer >>
    /\ UNCHANGED << loaderVars, cleared, groupVars, themeVars >>

\* a click on the close button of WordInfo, which is rendered for a selection
HandleCloseInfo ==
    /\ selectedWord # NoWord
    /\ selectedWord' = NoWord
    /\ WordInfoEffect(NoWord)
    /\ cleared' = cleared \cup { p.id : p \in pending }
    /\ UNCHANGED << inputText, analysis, isLoading, tokenizerLoading, error, analyses,
                    kuromojiTokenizer >>
    /\ UNCHANGED << loaderVars, selects, groupVars, themeVars >>

\* strs.join('-')
RECURSIVE joinDash(_)
joinDash(strs) ==
    IF Len(strs) = 0 THEN ""
    ELSE IF Len(strs) = 1 THEN Head(strs)
    ELSE Head(strs) \o "-" \o joinDash(Tail(strs))

\* createKey of AnalysisDisplay: the surfaces of the word's tokens, joined by '-'
createKey(word) == joinDash([i \in 1..Len(word) |-> word[i][1]])

\* isSelected of AnalysisDisplay for the i-th word of the displayed analysis
isSelected(i) ==
    selectedWord # NoWord /\ createKey(analysis.word_list[i]) = createKey(selectedWord.word)

\* disabled={isLoading || tokenizerLoading} of the Analyse button
analyseDisabled == isLoading \/ tokenizerLoading

\* a readiness test that lets every request through
tokenizerNotReadyNever == FALSE

\* the test tokenizerLoading || !kuromojiTokenizer of handleAnalyse
tokenizerNotReady == tokenizerLoading \/ ~kuromojiTokenizer

\* handleAnalyse without setSelectedWord(null)
HandleAnalyseKeepsSelection(throws) ==
    /\ ~analyseDisabled
    /\ IF trim(inputText) = << >>
       THEN /\ error' = ErrInput
            /\ UNCHANGED << analysis, selectedWord, analyses, wordInfoVars >>
       ELSE IF tokenizerNotReady
       THEN /\ error' = ErrNotReady
            /\ UNCHANGED << analysis, selectedWord, analyses, wordInfoVars >>
       ELSE /\ analyses < MaxAnalyses
            /\ analyses' = analyses + 1
            /\ UNCHANGED << selectedWord, wordInfoVars >>
            /\ IF throws
               THEN /\ error' = ErrAnalyse
                    /\ analysis' = NoAnalysis
               ELSE /\ error' = ErrNull
                    /\ analysis' = [present |-> TRUE, aid |-> analyses + 1,
                                    word_list |-> groupTokens(tokenize(inputText))]
    /\ isLoading' = FALSE
    /\ UNCHANGED << inputText, tokenizerLoading, kuromojiTokenizer >>
    /\ UNCHANGED << loaderVars, selects, cleared, groupVars, themeVars >>

\* handleAnalyse without its finally: setIsLoading(false) only after a
\* tokenize that returned
HandleAnalyseNoFinally(throws) ==
    /\ ~analyseDisabled
    /\ IF trim(inputText) = << >>
       THEN /\ error' = ErrInput
            /\ isLoading' = FALSE
            /\ UNCHANGED << analysis, selectedWord, analyses, wordInfoVars >>
       ELSE IF tokenizerNotReady
       THEN /\ error' = ErrNotReady
            /\ isLoading' = FALSE
            /\ UNCHANGED << analysis, selectedWord, analyses, wordInfoVars >>
       ELSE /\ analyses < MaxAnalyses
            /\ analyses' = analyses + 1
            /\ selectedWord' = NoWord
            /\ IF selectedWord # NoWord
               THEN WordInfoEffect(NoWord)
               ELSE UNCHANGED wordInfoVars
            /\ IF throws
               THEN /\ error' = ErrAnalyse
                    /\ analysis' = NoAnalysis
                    /\ isLoading' = TRUE
               ELSE /\ error' = ErrNull
                    /\ isLoading' = FALSE
                    /\ analysis' = [present |-> TRUE, aid |-> analyses + 1,
                                    word_list |-> groupTokens(tokenize(inputText))]
    /\ UNCHANGED << inputText, tokenizerLoading, kuromojiTokenizer >>
    /\ UNCHANGED << loaderVars, selects, cleared, groupVars, themeVars >>

\* a click on the Analyse button; throws: whether tokenize raises
HandleAnalyse(throws) ==
    /\ ~analyseDisabled
    /\ IF trim(inputText) = << >>
       THEN /\ error' = ErrInput
            /\ UNCHANGED << analysis, selectedWord, analyses, wordInfoVars >>
       ELSE IF tokenizerNotReady
       THEN /\ error' = ErrNotReady
            /\ UNCHANGED << analysis, selectedWord, analyses, wordInfoVars >>
       ELSE /\ analyses < MaxAnalyses
            /\ analyses' = analyses + 1
            /\ selectedWord' = NoWord
            /\ IF selectedWord # NoWord
               THEN WordInfoEffect(NoWord)
               ELSE UNCHANGED wordInfoVars
            /\ IF throws
               THEN /\ error' = ErrAnalyse
                    /\ analysis' = NoAnalysis
               ELSE /\ error' = ErrNull
                    /\ analysis' = [present |-> TRUE, aid |-> analyses + 1,
                                    word_list |-> groupTokens(tokenize(inputText))]
    /\ isLoading' = FALSE
    /\ UNCHANGED << inputText, tokenizerLoading, kuromojiTokenizer >>
    /\ UNCHANGED << loaderVars, selects, cleared, groupVars, themeVars >>

\* ------------------------------------------------------------------------
\* groupTokens called on its own, on every token stream within the bounds
\* ------------------------------------------------------------------------
SeqsUpTo(S, n) == UNION { [1..k -> S] : k \in 0..n }

\* the (pos, pos_detail_1) pairs the rules tell apart, and one of each other sort
TagKinds ==
    { << Doushi, Ippan >>, << Doushi, Hijiritsu >>, << Jodoushi, Ippan >>,
      << Joshi, SetsuzokuJoshi >>, << Joshi, ShuuJoshi >>, << Joshi, Ippan >>,
      << Meishi, Setsubi >>, << Meishi, Ippan >>, << Keiyoushi, Ippan >> }

\* the surface of the token at place i of a long stream: all different
PlaceSurface == << "s1", "s2", "s3", "s4", "s5", "s6", "s7", "s8" >>

\* a long stream: its tags are kinds, every token has its own surface, and
\* every other token has no reading
LongStream(kinds) ==
    [i \in 1..Len(kinds) |->
        Tok(PlaceSurface[i], IF i % 2 = 1 THEN "" ELSE "YOMI", kinds[i][1], kinds[i][2])]

GroupInputs ==
    SeqsUpTo(KuromojiToken, MaxTokens)
        \cup { LongStream(kinds) : kinds \in SeqsUpTo(TagKinds, MaxLong) }
        \cup { ScenarioTokens, TwinTokens, Absent }

InitGroup ==
    /\ InitPage
    /\ gTokens \in GroupInputs
    /\ gCalled = FALSE
    /\ gWords = << >>
    /\ routeCall = NoCall
    /\ themeProvider = ThemeProviderMount("", 0)

CallGroupTokens ==
    /\ ~gCalled
    /\ gWords' = groupTokens(gTokens)
    /\ gCalled' = TRUE
    /\ UNCHANGED << gTokens, routeCall, appVars, loaderVars, wordInfoVars, selects, cleared,
                    themeVars >>

NextGroup == CallGroupTokens

SpecGroup == InitGroup /\ [][NextGroup]_vars

\* groupTokens called on the long streams alone: every run of tag kinds
InitStream ==
    /\ InitPage
    /\ gTokens \in { LongStream(kinds) : kinds \in SeqsUpTo(TagKinds, MaxLong) }
    /\ gCalled = FALSE
    /\ gWords = << >>
    /\ routeCall = NoCall
    /\ themeProvider = ThemeProviderMount("", 0)

SpecStream == InitStream /\ [][NextGroup]_vars

\* ------------------------------------------------------------------------
\* One request to /api/jisho: the route answers, then the client lookup reads
\* the answer; over every keyword and everything the upstream service does
\* ------------------------------------------------------------------------
InitRoute ==
    /\ InitPage
    /\ gTokens = << >>
    /\ gCalled = FALSE
    /\ gWords = << >>
    /\ \E keyword \in Keywords, up \in UpstreamOutcomes, fetchThrew \in BOOLEAN :
          routeCall = [NoCall EXCEPT !.keyword = keyword, !.up = up,
                                     !.fetchThrew = fetchThrew, !.stage = "request"]
    /\ themeProvider = ThemeProviderMount("", 0)

\* the route handler runs on the request
RouteAnswers ==
    /\ routeCall.stage = "request"
    /\ routeCall' = [routeCall EXCEPT !.stage = "response",
                                      !.response = GET(routeCall.keyword, routeCall.up)]
    /\ UNCHANGED << gTokens, gCalled, gWords, appVars, loaderVars, wordInfoVars, selects,
                    cleared, themeVars >>

\* getWordMeaningWithJisho goes on after its await of fetch
ClientReads ==
    /\ routeCall.stage = "response"
    /\ routeCall' = [routeCall EXCEPT !.stage = "result",
                        !.result = getWordMeaningWithJisho(routeCall.fetchThrew,
                                                           routeCall.response)]
    /\ UNCHANGED << gTokens, gCalled, gWords, appVars, loaderVars, wordInfoVars, selects,
                    cleared, themeVars >>

NextRoute == RouteAnswers \/ ClientReads

SpecRoute == InitRoute /\ [][NextRoute]_vars

\* ------------------------------------------------------------------------
\* The page: every callback and handler
\* ------------------------------------------------------------------------
Next ==
    \/ \E hasKuromoji \in BOOLEAN : ScriptOnload(hasKuromoji)
    \/ ScriptOnerror
    \/ TimeoutFires
    \/ DeadlinePasses
    \/ \E err \in BOOLEAN : BuildCallback(err)
    \/ \E text \in Texts : SetInputText(text)
    \/ \E throws \in BOOLEAN : HandleAnalyse(throws)
    \/ \E i \in 1..Len(analysis.word_list) : HandleWordSelect(i)
    \/ HandleCloseInfo
    \/ \E p \in pending, up \in UpstreamOutcomes, fetchThrew \in BOOLEAN :
           CompleteLookup(p, up, fetchThrew)

Spec == Init /\ [][Next]_vars

\* ------------------------------------------------------------------------
\* The analysed page and its panel, every issued dictionary call settling in
\* the end
\* ------------------------------------------------------------------------
\* the page after the tokenizer was installed and the first text analysed
InitLive ==
    /\ inputText = TextA
    /\ analysis = [present |-> TRUE, aid |-> 1, word_list |-> groupTokens(tokenize(TextA))]
    /\ selectedWord = NoWord
    /\ isLoading = FALSE
    /\ tokenizerLoading = FALSE
    /\ error = ErrNull
    /\ analyses = 1
    /\ kuromojiTokenizer = TRUE
    /\ script = "loaded"
    /\ timer = "cleared"
    /\ build = "done"
    /\ deadline = "ahead"
    /\ jishoData = NullEntry
    /\ wiIsLoading = FALSE
    /\ wiError = ""
    /\ pending = {}
    /\ issued = 0
    /\ dataBy = 0
    /\ errorBy = 0
    /\ outcome = << >>
    /\ lastDone = 0
    /\ selects = 0
    /\ cleared = {}
    /\ gTokens = << >>
    /\ gCalled = FALSE
    /\ gWords = << >>
    /\ routeCall = NoCall
    /\ themeProvider = ThemeProviderMount("", 0)

\* the handlers of the analysed page and the completions of the lookups
NextLive ==
    \/ \E throws \in BOOLEAN : HandleAnalyse(throws)
    \/ \E i \in 1..Len(analysis.word_list) : HandleWordSelect(i)
    \/ HandleCloseInfo
    \/ \E p \in pending, up \in UpstreamOutcomes, fetchThrew \in BOOLEAN :
           CompleteLookup(p, up, fetchThrew)

\* the promise awaited in fetchMeaning is resolved or rejected
SettleLookup(id) ==
    \E p \in pending :
        /\ p.id = id
        /\ \E up \in UpstreamOutcomes, fetchThrew \in BOOLEAN : CompleteLookup(p, up, fetchThrew)

EveryLookupSettles == \A id \in 1..MaxLookups : WF_vars(SettleLookup(id))

SpecLive == InitLive /\ [][NextLive]_vars /\ EveryLookupSettles

\* ------------------------------------------------------------------------
\* ThemeProvider in a document that is loaded and reloaded, over everything
\* the storage can hold at the first load
\* ------------------------------------------------------------------------
InitTheme ==
    /\ InitPage
    /\ gTokens = << >>
    /\ gCalled = FALSE
    /\ gWords = << >>
    /\ routeCall = NoCall
    /\ \E stored \in StoredThemes : themeProvider = ThemeProviderMount(stored, 0)

\* the page and the calls followed on their own take no step here
pageVars == << appVars, loaderVars, wordInfoVars, selects, cleared, groupVars >>

\* the effects of the first render, in the order they are declared
MountEffects ==
    /\ themeProvider.effects = "mount"
    /\ themeProvider' = [themeEffect(storedThemeEffect(themeProvider))
                            EXCEPT !.effects = "none"]
    /\ UNCHANGED pageVars

\* the render for an update queued by an effect
Rerender ==
    /\ themeProvider.effects = "none"
    /\ themeProvider.queue # << >>
    /\ themeProvider' = render(themeProvider)
    /\ UNCHANGED pageVars

\* the effect on [theme] after a render with another theme
ThemeEffect ==
    /\ themeProvider.effects = "theme"
    /\ themeProvider' = [themeEffect(themeProvider) EXCEPT !.effects = "none"]
    /\ UNCHANGED pageVars

\* a click on the button and the render that follows it; effects that are
\* due run before the click is handled
ToggleClick ==
    /\ themeProvider.effects = "none"
    /\ themeProvider.toggles < MaxToggles
    /\ themeProvider' =
          [render(onClick(themeProvider))
              EXCEPT !.toggles = @ + 1,
                     !.before = SubSeq(<< themeProvider.theme >> \o themeProvider.before,
                                       1, IF Len(themeProvider.before) = 0 THEN 1 ELSE 2)]
    /\ UNCHANGED pageVars

\* the document is loaded again: the storage is all that is kept
Reload ==
    /\ themeProvider.reloads < MaxReloads
    /\ themeProvider' = ThemeProviderMount(themeProvider.stored, themeProvider.reloads + 1)
    /\ UNCHANGED pageVars

NextTheme ==
    \/ MountEffects
    \/ Rerender
    \/ ThemeEffect
    \/ ToggleClick
    \/ Reload

SpecTheme == InitTheme /\ [][NextTheme]_vars

\* ------------------------------------------------------------------------
\* Properties of groupTokens (SpecGroup)
\* ------------------------------------------------------------------------
RECURSIVE join(_)
\* strs.join('')
join(strs) == IF Len(strs) = 0 THEN "" ELSE Head(strs) \o join(Tail(strs))

RECURSIVE flatten(_)
\* the token lists of the words, one after the other
flatten(words) == IF Len(words) = 0 THEN << >> ELSE Head(words) \o flatten(Tail(words))

surfacesOfTokens(tokens) == [i \in 1..Len(tokens) |-> tokens[i].surface_form]
surfacesOfWord(word) == [i \in 1..Len(word) |-> word[i][1]]
surfacesOfWords(words) == [k \in 1..Len(words) |-> surfacesOfWord(words[k])]

\* a call of groupTokens on a token stream (not on null) has returned
Grouped == gCalled /\ gTokens # Absent

\* C3: the surfaces of all tokens of all words of groupTokens(T), joined in
\* order, are the surfaces of T joined in order.
C3_SurfaceCoverage ==
    Grouped => join(flatten(surfacesOfWords(gWords))) = join(surfacesOfTokens(gTokens))

\* a stream of three tokens with three surfaces was grouped into two words
C3_Witness ==
    /\ Grouped
    /\ Len(gTokens) = 3
    /\ Len(gWords) = 2
    /\ Cardinality({ gTokens[i].surface_form : i \in 1..3 }) = 3

\* C4: every word of groupTokens(T) is non-empty, and the words' token lists,
\* one after the other, are the tokens of T (as AnalyzedToken) in T's order:
\* same length, none repeated, none left out; so each word is a contiguous
\* run of T.
C4_Partition ==
    Grouped =>
        /\ \A k \in 1..Len(gWords) : Len(gWords[k]) > 0
        /\ flatten(gWords) = [i \in 1..Len(gTokens) |-> newToken(gTokens[i])]

\* a stream of four tokens was split into a word of two tokens between two
\* words of one
C4_Witness ==
    /\ Grouped
    /\ Len(gTokens) = 4
    /\ Len(gWords) = 3
    /\ Len(gWords[2]) = 2

\* C5: for [(tabe, verb), (ta, auxiliary verb), (no, particle/conjunctive),
\* (neko, noun), (tachi, noun/suffix)] groupTokens returns exactly the two
\* words [tabe, ta, no] and [neko, tachi].
C5_Scenario ==
    (gCalled /\ gTokens = ScenarioTokens) =>
        surfacesOfWords(gWords) = << << "tabe", "ta", "no" >>, << "neko", "tachi" >> >>

\* groupTokens has returned for the scenario's stream
C5_Witness == gCalled /\ gTokens = ScenarioTokens /\ Len(gWords) = 2

\* C6: groupTokens of the empty stream, or of null, is the empty list; of a
\* non-empty stream it is a non-empty list. (That the call returns for every
\* input shows in every input's state having its successor.)
C6_EmptyIffEmpty ==
    /\ (gCalled /\ (gTokens = Absent \/ Len(gTokens) = 0)) => gWords = << >>
    /\ (Grouped /\ Len(gTokens) > 0) => Len(gWords) > 0

\* groupTokens has returned the empty list for the empty stream
C6_Witness == gCalled /\ gTokens = << >> /\ gWords = << >>

\* ------------------------------------------------------------------------
\* Properties of the lookup panel (Spec)
\* ------------------------------------------------------------------------
\* the lookup key of the current selection: the surface of its first token
baseFormOf(sel) == sel.word[1][1]

\* the step settles the lookup p
Settles(p) == p \in pending /\ pending' = pending \ {p}

\* p is the lookup of the current selection
IsCurrent(p) == selectedWord # NoWord /\ p.id = issued

\* a selection made after the one p belongs to has superseded p
IsSuperseded(p) == p.id < issued

\* C1: word A is selected, then word B; B's lookup resolves first, with an
\* entry, and A's resolves after it. Then the panel is Loaded for B: it shows
\* B's entry, no error and no loading indication.
C1_Supersession ==
    ( /\ selectedWord # NoWord
      /\ issued >= 2
      /\ pending = {}
      /\ outcome[issued] = "entry"
      /\ lastDone > 0 /\ lastDone < issued )
    => ( /\ jishoData = Entry(baseFormOf(selectedWord), 1)
         /\ wiError = ""
         /\ ~wiIsLoading )

\* C2: whenever a word is selected, the entry and the error the panel shows
\* were written by the lookup of that selection, the one started last.
C2_OnlyLatestSurfaced ==
    selectedWord # NoWord =>
        /\ jishoData # NullEntry => dataBy = issued
        /\ wiError # "" => errorBy = issued

\* C8 as stated: every call of select, a call for the current selection
\* included, selects the word, shows Loading and starts exactly one lookup,
\* keyed on the surface of the word's first token.
C8_EverySelectLooksUp ==
    [][ selects' = selects + 1 =>
          /\ \E i \in 1..Len(analysis.word_list) : selectedWord' = WordAt(i)
          /\ wiIsLoading' /\ jishoData' = NullEntry /\ wiError' = ""
          /\ issued' = issued + 1
          /\ pending' = pending \cup { [id |-> issued + 1,
                                        keyword |-> baseFormOf(selectedWord')] } ]_vars

\* C8 amended: a call of select for a word that is not the current selection
\* selects the word, shows Loading and starts exactly one lookup, keyed on
\* the surface of the word's first token; a call for the current selection
\* changes nothing and starts no lookup.
C8_SelectOfAnotherWordLooksUp ==
    [][ selects' = selects + 1 =>
          /\ \E i \in 1..Len(analysis.word_list) : selectedWord' = WordAt(i)
          /\ IF selectedWord' # selectedWord
             THEN /\ wiIsLoading' /\ jishoData' = NullEntry /\ wiError' = ""
                  /\ issued' = issued + 1
                  /\ pending' = pending \cup { [id |-> issued + 1,
                                                keyword |-> baseFormOf(selectedWord')] }
             ELSE UNCHANGED << jishoData, wiIsLoading, wiError, pending, issued >> ]_vars

\* the three-token word tabe-ta-no was selected, its lookup, keyed on tabe,
\* is in flight, and it was then selected again
C8_Witness ==
    /\ selects = 2 /\ issued = 1
    /\ selectedWord # NoWord /\ Len(selectedWord.word) = 3
    /\ wiIsLoading
    /\ pending = { [id |-> 1, keyword |-> "tabe"] }

\* C9: when a lookup settles with at least one entry, the panel becomes
\* Loaded with the first entry if the lookup is the current selection's; if a
\* newer selection has superseded it, nothing of the panel's state changes.
C9_EntryCompletion ==
    [][ \A p \in pending :
          (Settles(p) /\ outcome'[p.id] = "entry") =>
              /\ IsCurrent(p) =>
                    jishoData' = Entry(p.keyword, 1) /\ wiError' = "" /\ ~wiIsLoading'
              /\ IsSuperseded(p) => UNCHANGED << jishoData, wiIsLoading, wiError >> ]_vars

\* C10: when the lookup of the current selection settles with no entry, the
\* panel becomes Loaded with no entry and no error; when a superseded lookup
\* settles with no entry, nothing of the panel's state changes.
C10_EmptyCompletion ==
    [][ \A p \in pending :
          (Settles(p) /\ outcome'[p.id] = "null") =>
              /\ IsCurrent(p) =>
                    jishoData' = NullEntry /\ wiError' = "" /\ ~wiIsLoading'
              /\ IsSuperseded(p) => UNCHANGED << jishoData, wiIsLoading, wiError >> ]_vars

\* C11: when the lookup of the current selection fails, the panel becomes
\* Failed with the lookup error; when a superseded lookup fails, no error is
\* set and the loading indication of the current selection stays.
C11_FailureCompletion ==
    [][ \A p \in pending :
          (Settles(p) /\ outcome'[p.id] = "error") =>
              /\ IsCurrent(p) =>
                    wiError' = ErrLookup /\ ~wiIsLoading' /\ jishoData' = NullEntry
              /\ IsSuperseded(p) => UNCHANGED << wiError, wiIsLoading >> ]_vars

\* what WordInfo renders: the placeholder when nothing is selected, else the
\* loading line, the error line, the entry or the no-definition line
WordInfoRender ==
    IF selectedWord = NoWord
    THEN [ placeholder |-> TRUE, loading |-> FALSE, error |-> "", entry |-> NullEntry,
           notFound |-> FALSE ]
    ELSE [ placeholder |-> FALSE, loading |-> wiIsLoading, error |-> wiError,
           entry |-> jishoData, notFound |-> (jishoData = NullEntry /\ ~wiIsLoading) ]

\* C12: a lookup that was in flight when handleCloseInfo ran is discarded
\* when it settles: what the panel shows stays as it is, both while nothing
\* is selected and after a later selection.
C12_ClearedLookupDiscarded ==
    [][ \A p \in pending :
          (Settles(p) /\ p.id \in cleared) => WordInfoRender' = WordInfoRender ]_vars

\* C13 as stated: right after handleCloseInfo there is no selection, no
\* entry, no error and no loading flag in the state of the panel.
C13_ClearResetsAll ==
    [][ (selectedWord' = NoWord /\ HandleCloseInfo) =>
          /\ selectedWord' = NoWord
          /\ jishoData' = NullEntry
          /\ wiError' = ""
          /\ ~wiIsLoading' ]_vars

\* C13, amended: right after handleCloseInfo there is no selection and no
\* entry, and the panel renders its placeholder only: no entry, no error, no
\* loading line. The error text and the loading flag are left as they were.
C13_ClearReturnsToIdle ==
    [][ (selectedWord' = NoWord /\ HandleCloseInfo) =>
          /\ selectedWord' = NoWord
          /\ jishoData' = NullEntry
          /\ WordInfoRender' = [ placeholder |-> TRUE, loading |-> FALSE, error |-> "",
                                 entry |-> NullEntry, notFound |-> FALSE ]
          /\ UNCHANGED << wiError, wiIsLoading >> ]_vars

\* the panel was closed on a loaded entry while no lookup was in flight
C13_Witness ==
    /\ selectedWord = NoWord
    /\ analyses = 1 /\ issued = 1 /\ pending = {}
    /\ outcome = << "entry" >>
    /\ jishoData = NullEntry

\* C14 as stated: a click on Analyse while the tokenizer is loading or not
\* installed sets the not-ready error, makes no call of tokenize and leaves
\* the analysis and the selection as they are.
C14_NotReadyRequest ==
    [][ ((tokenizerLoading \/ ~kuromojiTokenizer)
            /\ \E throws \in BOOLEAN : HandleAnalyse(throws)) =>
          /\ error' = ErrNotReady
          /\ UNCHANGED << analysis, selectedWord, analyses >> ]_vars

\* C14, amended: a click on Analyse with input that is not blank, while the
\* tokenizer is loading or not installed, sets the not-ready error, makes no
\* call of tokenize and leaves the analysis and the selection as they are.
C14_NotReadyRequestWithText ==
    [][ ((tokenizerLoading \/ ~kuromojiTokenizer)
            /\ trim(inputText) # << >>
            /\ \E throws \in BOOLEAN : HandleAnalyse(throws)) =>
          /\ error' = ErrNotReady
          /\ UNCHANGED << analysis, selectedWord, analyses >> ]_vars

\* the not-ready error was given for a text, with no tokenizer installed
C14_Witness ==
    /\ error = ErrNotReady
    /\ trim(inputText) # << >>
    /\ ~kuromojiTokenizer /\ ~tokenizerLoading
    /\ analyses = 0 /\ analysis = NoAnalysis /\ selectedWord = NoWord

\* C15: when the 10 seconds pass and the tokenizer is still being loaded
\* (script not yet loaded, or dictionary not yet built), loading ends and the
\* timeout error is reported.
C15_TimeoutBoundsLoading ==
    [][ (deadline = "ahead" /\ deadline' = "passed"
            /\ tokenizerLoading /\ ~kuromojiTokenizer) =>
          (~tokenizerLoading' /\ error' = ErrTimeout) ]_vars

\* C16: the lookup of a word failed, the lookup of the word selected after
\* it gave an entry, and both have settled, in either order. Then the panel
\* is Loaded for the later word: its entry, no error, no loading indication.
C16_FailureDoesNotBlockNext ==
    ( /\ selectedWord # NoWord
      /\ issued >= 2
      /\ pending = {}
      /\ outcome[issued - 1] = "error"
      /\ outcome[issued] = "entry" )
    => ( /\ jishoData = Entry(baseFormOf(selectedWord), 1)
         /\ wiError = ""
         /\ ~wiIsLoading )

\* C17: a click on Analyse with an input of white space only (or of nothing)
\* sets the input error, whether or not a tokenizer is installed, makes no
\* call of tokenize and leaves the analysis and the selection as they are.
C17_BlankInputRequest ==
    [][ ((\A i \in DOMAIN inputText : inputText[i] = " ")
            /\ \E throws \in BOOLEAN : HandleAnalyse(throws)) =>
          /\ error' = ErrInput
          /\ UNCHANGED << analysis, selectedWord, analyses >> ]_vars

\* the input error was given for white space with no tokenizer installed
C17_Witness ==
    /\ error = ErrInput
    /\ inputText = TextBlank
    /\ ~kuromojiTokenizer /\ ~tokenizerLoading
    /\ analyses = 0

\* C18: once the load has failed by a script error, a timeout or a build
\* error, loading has ended, an error is reported, no tokenizer is installed
\* and tokenize is never called (requests get the not-ready error instead).
C18_LoadFailureIsFinal ==
    ( \/ script = "failed"
      \/ timer = "fired"
      \/ (build = "done" /\ ~kuromojiTokenizer) )
    => ( /\ ~tokenizerLoading
         /\ error # ErrNull
         /\ ~kuromojiTokenizer
         /\ analyses = 0 )

\* C19: groupTokens(T) is the grouping of the reference rule. The first token
\* opens a word whatever its tags; a later token is appended to the open word
\* exactly when it is an auxiliary verb after a verb, a conjunctive or
\* sentence-final particle, a non-independent verb after a verb, or a suffix
\* noun; any other token opens a new word; the last open word is emitted.
\* Under that rule the open word ends with the token before the one tested,
\* so the words are the runs of T between the places that open a word.
C19_ReferenceRule ==
    Grouped =>
        LET n == Len(gTokens)
            appended(i) ==
                /\ i > 1
                /\ \/ gTokens[i].pos = Jodoushi /\ gTokens[i - 1].pos = Doushi
                   \/ gTokens[i].pos = Joshi
                        /\ gTokens[i].pos_detail_1 \in { SetsuzokuJoshi, ShuuJoshi }
                   \/ gTokens[i].pos = Doushi /\ gTokens[i - 1].pos = Doushi
                        /\ gTokens[i].pos_detail_1 = Hijiritsu
                   \/ gTokens[i].pos = Meishi /\ gTokens[i].pos_detail_1 = Setsubi
            opens == { i \in 1..n : ~appended(i) }
            wordOf(i) == Cardinality({ j \in opens : j <= i })
            last(i) == CHOOSE e \in i..n :
                          /\ \A j \in (i + 1)..e : j \notin opens
                          /\ (e = n \/ (e + 1) \in opens)
        IN  /\ Len(gWords) = Cardinality(opens)
            /\ \A i \in opens :
                  gWords[wordOf(i)] =
                      [k \in 1..(last(i) - i + 1) |-> newToken(gTokens[i + k - 1])]

\* a stream that starts with a conjunctive particle, followed by a noun and
\* a suffix noun, was grouped into the particle and the two nouns
C19_Witness ==
    /\ Grouped
    /\ Len(gTokens) = 3
    /\ gTokens[1].pos = Joshi /\ gTokens[1].pos_detail_1 = SetsuzokuJoshi
    /\ gTokens[2].pos = Meishi /\ gTokens[2].pos_detail_1 = Ippan
    /\ gTokens[3].pos = Meishi /\ gTokens[3].pos_detail_1 = Setsubi
    /\ Len(gWords) = 2 /\ Len(gWords[1]) = 1 /\ Len(gWords[2]) = 2

\* C20: a verb followed by n >= 1 verbs of sub-tag non-independent is grouped
\* into one word of n + 1 tokens, for every n the streams reach.
C20_VerbChain ==
    ( /\ Grouped
      /\ Len(gTokens) >= 2
      /\ gTokens[1].pos = Doushi
      /\ \A i \in 2..Len(gTokens) :
            gTokens[i].pos = Doushi /\ gTokens[i].pos_detail_1 = Hijiritsu )
    => ( Len(gWords) = 1 /\ Len(gWords[1]) = Len(gTokens) )

\* a verb and three non-independent verbs were grouped into one word
C20_Witness ==
    /\ Grouped
    /\ Len(gTokens) = 4
    /\ gTokens[1].pos = Doushi /\ gTokens[1].pos_detail_1 = Ippan
    /\ \A i \in 2..4 : gTokens[i].pos = Doushi /\ gTokens[i].pos_detail_1 = Hijiritsu
    /\ Len(gWords) = 1 /\ Len(gWords[1]) = 4

\* C21: whatever the token and the part of speech before it, at most one of
\* the four operands of the continue condition holds; and each token after
\* the first either is appended to the open word, the list of closed words
\* staying as it is, or closes the open word and opens a word of its own:
\* one of the two, never both, never neither.
C21_OneClauseOneOutcome ==
    Grouped =>
        /\ \A i \in 1..Len(gTokens) : \A prevPos \in PosTags :
              Cardinality({ c \in 1..4 :
                  \/ c = 1 /\ auxAfterVerb(gTokens[i], prevPos)
                  \/ c = 2 /\ linkingParticle(gTokens[i], prevPos)
                  \/ c = 3 /\ dependentVerbAfterVerb(gTokens[i], prevPos)
                  \/ c = 4 /\ suffixNoun(gTokens[i], prevPos) }) <= 1
        /\ \A i \in 2..Len(gTokens) :
              LET before == forEach(SubSeq(gTokens, 1, i - 1), 1,
                                    [wordList |-> << >>, currentWord |-> << >>])
                  after == forEachBody(before, gTokens[i])
                  appended == /\ after.wordList = before.wordList
                              /\ after.currentWord =
                                    Append(before.currentWord, newToken(gTokens[i]))
                  opened == /\ after.wordList = Append(before.wordList, before.currentWord)
                            /\ after.currentWord = << newToken(gTokens[i]) >>
              IN  (appended \/ opened) /\ ~(appended /\ opened)

\* an auxiliary verb whose sub-tag is non-independent came after a verb and
\* was appended to it
C21_Witness ==
    /\ Grouped
    /\ Len(gTokens) = 2
    /\ gTokens[1].pos = Doushi
    /\ gTokens[2].pos = Jodoushi /\ gTokens[2].pos_detail_1 = Hijiritsu
    /\ Len(gWords) = 1 /\ Len(gWords[1]) = 2

\* C22: the tokens of the words of groupTokens(T), one after the other, are
\* T's tokens with the surface form and the part of speech as the tagger gave
\* them, and with the tagger's reading where it gave one that is not empty,
\* the surface form where it did not.
C22_ReadingFallback ==
    Grouped =>
        LET grouped == flatten(gWords) IN
        /\ Len(grouped) = Len(gTokens)
        /\ \A i \in 1..Len(gTokens) :
              /\ grouped[i][1] = gTokens[i].surface_form
              /\ gTokens[i].reading # "" => grouped[i][2] = gTokens[i].reading
              /\ gTokens[i].reading = "" => grouped[i][2] = gTokens[i].surface_form
              /\ grouped[i][3] = gTokens[i].pos

\* a token without a reading and a token with one were grouped
C22_Witness ==
    /\ Grouped
    /\ Len(gTokens) = 2
    /\ gTokens[1].reading = "" /\ gTokens[2].reading # ""
    /\ gTokens[2].reading # gTokens[2].surface_form
    /\ flatten(gWords)[1][2] = gTokens[1].surface_form
    /\ flatten(gWords)[2][2] = gTokens[2].reading

\* C23: at most one word of the displayed analysis carries the mark of the
\* current selection, also when two of its words have the same surfaces.
C23_OneWordMarked ==
    Cardinality({ i \in 1..Len(analysis.word_list) : isSelected(i) }) <= 1

\* C24: while a word is selected the panel is in one state only: it never
\* holds an entry together with an error, and never shows the loading line
\* together with an entry or with an error.
C24_OneVariant ==
    selectedWord # NoWord =>
        /\ ~(jishoData # NullEntry /\ wiError # "")
        /\ ~(WordInfoRender.loading /\ WordInfoRender.entry # NullEntry)
        /\ ~(WordInfoRender.loading /\ WordInfoRender.error # "")

\* C25: from the selection of a word until its own lookup settles, the panel
\* shows the loading line and does not read "No definition found.", whatever
\* older lookups settle in between.
C25_LoadingUntilOwnCompletion ==
    ( /\ selectedWord # NoWord
      /\ \E p \in pending : p.id = issued )
    => ( WordInfoRender.loading /\ ~WordInfoRender.notFound )

\* C26: a click on Analyse whose tokenize returns replaces the result: the
\* analysis is groupTokens of the tagger's tokens for the text in the input,
\* made of new word objects, the error is null, and nothing is selected, so
\* no word is marked.
C26_AnalysisReplaces ==
    [][ (analyses' = analyses + 1 /\ HandleAnalyse(FALSE)) =>
          /\ analysis'.present
          /\ analysis'.word_list = groupTokens(tokenize(inputText'))
          /\ analysis'.aid # analysis.aid
          /\ error' = ErrNull
          /\ selectedWord' = NoWord
          /\ \A i \in 1..Len(analysis'.word_list) : ~isSelected(i)' ]_vars

\* a second analysis has replaced a first one, of which a word was selected
\* (its lookup still in flight) and never closed
C26_Witness ==
    /\ analyses = 2 /\ analysis.present /\ analysis.aid = 2
    /\ error = ErrNull
    /\ issued = 1 /\ pending # {} /\ cleared = {}
    /\ selectedWord = NoWord

\* C27: when tokenize raises, the request ends with the analysis error and
\* the busy flag false, and the tokenizer stays installed and ready; a click
\* on Analyse with a text after that, tokenize returning, gives a result and
\* no error; and the busy flag is false after every click on Analyse.
C27_AnalysisFailureRecovers ==
    [][ /\ (analyses' = analyses + 1 /\ HandleAnalyse(TRUE)) =>
              /\ error' = ErrAnalyse
              /\ ~isLoading'
              /\ kuromojiTokenizer' /\ ~tokenizerLoading'
              /\ ~analyseDisabled'
        /\ (analyses' = analyses + 1 /\ error = ErrAnalyse /\ HandleAnalyse(FALSE)) =>
              /\ analysis'.present /\ error' = ErrNull
        /\ ((error' # error \/ analyses' # analyses)
                /\ \E throws \in BOOLEAN : HandleAnalyse(throws)) => ~isLoading' ]_vars

\* tokenize has raised in the second request, after a first that gave a result
C27_Witness ==
    /\ analyses = 2 /\ analysis = NoAnalysis
    /\ error = ErrAnalyse /\ ~isLoading
    /\ kuromojiTokenizer /\ ~tokenizerLoading
    /\ issued = 1

\* C28: when every issued lookup settles in the end, a selection whose
\* lookup is in flight leads to a state where that lookup has been applied:
\* the loading indication is off and the entry (or its absence) or the error
\* the panel holds is that lookup's; unless another word was selected or the
\* selection was cleared before.
C28_EventuallySettled ==
    \A k \in 1..MaxLookups :
        ( /\ selectedWord # NoWord
          /\ issued = k
          /\ \E p \in pending : p.id = k )
        ~> ( \/ selectedWord = NoWord
             \/ issued # k
             \/ (~wiIsLoading /\ (dataBy = k \/ errorBy = k)) )

\* the lookup of the second selection has settled last and the panel holds
\* its entry
C28_Witness ==
    /\ selectedWord # NoWord
    /\ issued = 2 /\ pending = {} /\ lastDone = 2
    /\ ~wiIsLoading /\ dataBy = 2 /\ jishoData # NullEntry

\* C29: when the call to the dictionary service throws or answers not-OK,
\* the route answers 500, the client lookup raises, and the lookup settles as
\* an error; if it is the lookup of the current selection the panel is then
\* Failed: the lookup error, no entry, no loading, and it does not read
\* "No definition found.".
C29_ServiceFailureIsFailed ==
    [][ \A p \in pending : \A up \in UpstreamOutcomes : \A fetchThrew \in BOOLEAN :
          (up.kind # "ok" /\ CompleteLookup(p, up, fetchThrew)) =>
              /\ GET(p.keyword, up).status = 500
              /\ getWordMeaningWithJisho(fetchThrew, GET(p.keyword, up)).threw
              /\ outcome'[p.id] = "error"
              /\ IsCurrent(p) =>
                    /\ wiError' = ErrLookup
                    /\ jishoData' = NullEntry
                    /\ ~wiIsLoading'
                    /\ ~WordInfoRender'.notFound ]_vars

\* ------------------------------------------------------------------------
\* Properties of the route (SpecRoute)
\* ------------------------------------------------------------------------
\* C30 as stated: a request without a keyword is answered 400 with no call
\* to the dictionary service; a request with one makes exactly one call and
\* is answered with that call's list of entries under data.
C30_RouteContract ==
    routeCall.stage \in {"response", "result"} =>
        IF routeCall.keyword = ""
        THEN routeCall.response.status = 400 /\ routeCall.response.upstreamCalls = 0
        ELSE /\ routeCall.response.upstreamCalls = 1
             /\ routeCall.response.ok
             /\ routeCall.response.data = UpstreamData(routeCall.keyword, routeCall.up.n)

\* C30, amended: a request without a keyword is answered 400 with no call to
\* the dictionary service; a request with one makes exactly one call and,
\* when that call answers OK, is answered with the call's list of entries
\* under data.
C30_RouteContractWhenOk ==
    routeCall.stage \in {"response", "result"} =>
        IF routeCall.keyword = ""
        THEN routeCall.response.status = 400 /\ routeCall.response.upstreamCalls = 0
        ELSE /\ routeCall.response.upstreamCalls = 1
             /\ routeCall.up.kind = "ok" =>
                   /\ routeCall.response.ok
                   /\ routeCall.response.data =
                         [i \in 1..routeCall.up.n |-> Entry(routeCall.keyword, i)]

\* the route has answered a request for a keyword with the two entries the
\* dictionary service gave
C30_Witness ==
    /\ routeCall.stage = "response"
    /\ routeCall.keyword = "neko"
    /\ routeCall.up = [kind |-> "ok", n |-> 2]
    /\ routeCall.response.status = 200
    /\ Len(routeCall.response.data) = 2

\* ------------------------------------------------------------------------
\* Properties of the loader and of the selection (Spec)
\* ------------------------------------------------------------------------
\* C31: once the load has failed (script error, timeout, or build error) and
\* no tokenizer is installed, no step installs one, re-enters loading or runs
\* tokenize.
C31_FailedIsFinal ==
    [][ ( /\ ~kuromojiTokenizer
          /\ \/ script = "failed"
             \/ timer = "fired"
             \/ build = "done" )
        => ( /\ ~kuromojiTokenizer'
             /\ ~tokenizerLoading'
             /\ analyses' = analyses ) ]_vars

\* C32: once a tokenizer is installed and loading has ended, every step
\* leaves the tokenizer installed and loading ended, and none reports a load
\* error.
C32_ReadyIsStable ==
    [][ (kuromojiTokenizer /\ ~tokenizerLoading) =>
          /\ kuromojiTokenizer'
          /\ ~tokenizerLoading'
          /\ error' # error => error' \notin { ErrScript, ErrBuild, ErrTimeout, ErrNoKuromoji } ]_vars

\* the tokenizer is installed, the 10 seconds have passed since, and an
\* analysis has run after that
C32_Witness ==
    /\ kuromojiTokenizer /\ ~tokenizerLoading
    /\ timer = "cleared" /\ deadline = "passed"
    /\ analyses = 1 /\ analysis.present /\ error = ErrNull

\* C33: a selection is a word object of the analysis on display: of that
\* analysis and no earlier one, at a place of its word list, and the word at
\* that place; with no analysis on display nothing is selected.
C33_SelectionOfDisplayedAnalysis ==
    selectedWord # NoWord =>
        /\ analysis.present
        /\ selectedWord.aid = analysis.aid
        /\ selectedWord.idx \in 1..Len(analysis.word_list)
        /\ selectedWord.word = analysis.word_list[selectedWord.idx]

\* a word of the second analysis is selected, after a word of the first was
C33_Witness ==
    /\ analyses = 2 /\ analysis.present /\ analysis.aid = 2
    /\ selects = 2
    /\ selectedWord # NoWord /\ selectedWord.aid = 2

\* ------------------------------------------------------------------------
\* groupTokens and the token before (SpecStream)
\* ------------------------------------------------------------------------
\* C34: at every token after the first, the open word ends with the token
\* just before it in the stream, so prevPos is that token's part of speech;
\* and groupTokens(T) is the list of words got by testing each token against
\* the token before it in T: a word starts at the first token and at every
\* token that does not continue the token before it, and runs up to the
\* token before the next start.
C34_PrevPosIsPreviousToken ==
    Grouped =>
        LET n == Len(gTokens)
            openWordAt(i) ==
                forEach(SubSeq(gTokens, 1, i - 1), 1,
                        [wordList |-> << >>, currentWord |-> << >>]).currentWord
            starts == { i \in 1..n : i = 1 \/ ~continues(gTokens[i], gTokens[i - 1].pos) }
        IN  /\ \A i \in 2..n :
                  LET open == openWordAt(i) IN
                  /\ Len(open) > 0
                  /\ open[Len(open)][3] = gTokens[i - 1].pos
            /\ Len(gWords) = Cardinality(starts)
            /\ \A i \in 1..n :
                  LET upTo == { j \in starts : j <= i }
                      k == Cardinality(upTo)
                      s == CHOOSE j \in upTo : \A h \in upTo : h <= j
                  IN  /\ i - s + 1 <= Len(gWords[k])
                      /\ gWords[k][i - s + 1] = newToken(gTokens[i])
                      /\ (i = n \/ (i + 1) \in starts) => Len(gWords[k]) = i - s + 1

\* a verb, an auxiliary verb appended to it, a second auxiliary verb and a
\* linking particle: the second auxiliary verb follows an auxiliary verb,
\* not a verb, and opens a word; the particle is appended to that word
C34_Witness ==
    /\ Grouped
    /\ Len(gTokens) = 4
    /\ gTokens[1].pos = Doushi
    /\ gTokens[2].pos = Jodoushi
    /\ gTokens[3].pos = Jodoushi
    /\ gTokens[4].pos = Joshi /\ gTokens[4].pos_detail_1 = SetsuzokuJoshi
    /\ Len(gWords) = 2 /\ Len(gWords[1]) = 2 /\ Len(gWords[2]) = 2

\* ------------------------------------------------------------------------
\* Properties of ThemeProvider (SpecTheme)
\* ------------------------------------------------------------------------
\* no effect is due and no update is queued
ThemeSettled == themeProvider.effects = "none" /\ themeProvider.queue = << >>

\* C35: the theme preference round-trips through the storage. Once the
\* effects have settled: when the storage held 'dark' at the mount and
\* nothing was clicked since, the theme is dark, the storage still holds
\* 'dark' and the document element carries the dark class; after any number
\* of toggles the stored value is the current theme and the dark class is
\* there exactly when the theme is dark; and after two toggles the theme is
\* the one shown before them.
C35_ThemeRoundTrip ==
    ThemeSettled =>
        /\ (themeProvider.storedAtMount = "dark" /\ themeProvider.toggles = 0) =>
              /\ themeProvider.theme = "dark"
              /\ themeProvider.stored = "dark"
              /\ themeProvider.darkClass
        /\ themeProvider.stored = themeProvider.theme
        /\ themeProvider.darkClass <=> (themeProvider.theme = "dark")
        /\ themeProvider.toggles >= 2 => themeProvider.theme = themeProvider.before[2]

\* dark was chosen, the document was loaded again with 'dark' in the
\* storage, and two clicks later the theme is dark again
C35_Witness ==
    /\ ThemeSettled
    /\ themeProvider.reloads = 1
    /\ themeProvider.storedAtMount = "dark"
    /\ themeProvider.toggles = 2
    /\ themeProvider.before = << "light", "dark" >>
    /\ themeProvider.theme = "dark"
    /\ themeProvider.stored = "dark"
    /\ themeProvider.darkClass

====
